---- MODULE Spec2Model ----
(***************************************************************************)
(* A model of the client methods set_chat_permissions and send_reaction    *)
(* and of the Reaction result type (Reaction._parse, _parse_count).        *)
(*                                                                         *)
(* One client issues one call at a time.  A call is followed through its   *)
(* awaits: resolve_peer, then invoke, then the shaping of the response.    *)
(* Python's None is the empty set and an optional value v is {v}, so that  *)
(* "is None" and truthiness stay distinct (message_id = 0 is not None).    *)
(***************************************************************************)
EXTENDS Integers, Sequences, FiniteSets

VARIABLES pc, op, args, peer, resolveCalls, requests, response, fault, result

vars == <<pc, op, args, peer, resolveCalls, requests, response, fault, result>>

(* ------------------------------ bounds -------------------------------- *)
MaxChatId == 2
MaxTargetId == 1
MaxPicked == 2
MaxReactions == 2
MaxUpdates == 3
MaxChats == 2
MaxCount == 1

(* --------------------------- Python values ---------------------------- *)
None == {}
Some(v) == {v}

Returned(v) == [kind |-> "returned", value |-> v, exc |-> "-"]
Raised(e) == [kind |-> "raised", value |-> None, exc |-> e]
Pending == [kind |-> "pending", value |-> None, exc |-> "-"]

PyTrue == "True"

\* A Python list, and an object that is not a list (not iterable).
PyList(s) == [shape |-> "list", items |-> s]
PyObject(x) == [shape |-> "object", items |-> <<x>>]
PyNone == [shape |-> "None", items |-> <<>>]
NotIterable == [shape |-> "TypeError", items |-> <<>>]

\* bool(x) for the values a reaction argument takes: None and the empty
\* list are falsy, a non-empty list and any object are truthy.
Truthy(x) == \/ x.shape = "object"
             \/ x.shape = "list" /\ Len(x.items) > 0

RECURSIVE SeqsUpTo(_, _)
SeqsUpTo(S, n) ==
    IF n = 0 THEN {<<>>}
    ELSE LET prev == SeqsUpTo(S, n - 1)
         IN  prev \cup {Append(s, x) : s \in {t \in prev : Len(t) = n - 1}, x \in S}

RECURSIVE SubsetsUpTo(_, _)
SubsetsUpTo(S, n) ==
    IF n = 0 THEN {{}}
    ELSE LET prev == SubsetsUpTo(S, n - 1)
         IN  prev \cup {s \cup {x} : s \in prev, x \in S}

(* ------------------------ external capabilities ----------------------- *)
ChatIds == 1..MaxChatId
TargetIds == 0..MaxTargetId

\* resolve_peer(chat_id) -> PeerReference
ResolvePeer(chat_id) == [t |-> "InputPeer", id |-> chat_id]

\* What the external client raises from resolve_peer and from invoke.
PeerErrors == {"PeerIdInvalid", "UsernameNotOccupied"}
RpcErrors == {"ChatAdminRequired", "FloodWait"}

(* ------------------------ set_chat_permissions ------------------------ *)
PermFlags ==
    {"can_send_messages", "can_send_media_messages", "can_add_web_page_previews",
     "can_send_polls", "can_change_info", "can_invite_users", "can_pin_messages",
     "can_manage_topics", "can_send_audios", "can_send_docs", "can_send_games",
     "can_send_gifs", "can_send_inline", "can_send_photos", "can_send_plain",
     "can_send_roundvideos", "can_send_stickers", "can_send_videos",
     "can_send_voices"}

\* A ChatPermissions flag is True, False or left at None.
PyFlagValues == {None, Some(TRUE), Some(FALSE)}

\* The permission sets tried: up to MaxPicked flags hold one value and
\* every other flag holds another.
PermissionSets ==
    {[f \in PermFlags |-> IF f \in S THEN a ELSE b] :
        S \in SubsetsUpTo(PermFlags, MaxPicked), a \in PyFlagValues, b \in PyFlagValues}

\* Python's "not x" on a flag: only True is truthy.
PyNot(x) == x # Some(TRUE)

ChatBannedRights_swapped(permissions) ==
    [until_date |-> 0,
     send_messages |-> PyNot(permissions.can_send_messages),
     send_media |-> PyNot(permissions.can_send_media_messages),
     embed_links |-> PyNot(permissions.can_add_web_page_previews),
     send_polls |-> PyNot(permissions.can_send_polls),
     change_info |-> PyNot(permissions.can_change_info),
     invite_users |-> PyNot(permissions.can_invite_users),
     pin_messages |-> PyNot(permissions.can_pin_messages),
     manage_topics |-> PyNot(permissions.can_manage_topics),
     send_audios |-> PyNot(permissions.can_send_docs),
     send_docs |-> PyNot(permissions.can_send_audios),
     send_games |-> PyNot(permissions.can_send_games),
     send_gifs |-> PyNot(permissions.can_send_gifs),
     send_inline |-> PyNot(permissions.can_send_inline),
     send_photos |-> PyNot(permissions.can_send_photos),
     send_plain |-> PyNot(permissions.can_send_plain),
     send_roundvideos |-> PyNot(permissions.can_send_roundvideos),
     send_stickers |-> PyNot(permissions.can_send_stickers),
     send_videos |-> PyNot(permissions.can_send_videos),
     send_voices |-> PyNot(permissions.can_send_voices)]

\* raw.types.ChatBannedRights(...) as built from the permissions.
ChatBannedRights(permissions) ==
    [until_date |-> 0,
     send_messages |-> PyNot(permissions.can_send_messages),
     send_media |-> PyNot(permissions.can_send_media_messages),
     embed_links |-> PyNot(permissions.can_add_web_page_previews),
     send_polls |-> PyNot(permissions.can_send_polls),
     change_info |-> PyNot(permissions.can_change_info),
     invite_users |-> PyNot(permissions.can_invite_users),
     pin_messages |-> PyNot(permissions.can_pin_messages),
     manage_topics |-> PyNot(permissions.can_manage_topics),
     send_audios |-> PyNot(permissions.can_send_audios),
     send_docs |-> PyNot(permissions.can_send_docs),
     send_games |-> PyNot(permissions.can_send_games),
     send_gifs |-> PyNot(permissions.can_send_gifs),
     send_inline |-> PyNot(permissions.can_send_inline),
     send_photos |-> PyNot(permissions.can_send_photos),
     send_plain |-> PyNot(permissions.can_send_plain),
     send_roundvideos |-> PyNot(permissions.can_send_roundvideos),
     send_stickers |-> PyNot(permissions.can_send_stickers),
     send_videos |-> PyNot(permissions.can_send_videos),
     send_voices |-> PyNot(permissions.can_send_voices)]

\* raw.functions.messages.EditChatDefaultBannedRights(peer, banned_rights)
EditChatDefaultBannedRights(p, permissions) ==
    [t |-> "messages.EditChatDefaultBannedRights",
     peer |-> p,
     banned_rights |-> ChatBannedRights(permissions)]

\* types.Chat._parse_chat(self, chat)
Chat_parse_chat(chat) == [t |-> "Chat", id |-> chat]

\* The responses to EditChatDefaultBannedRights: an Updates with its chats.
ChatsResponses ==
    {[t |-> "Updates", chats |-> c] : c \in SeqsUpTo(ChatIds, MaxChats) \ {<<>>}}

(* ---------------------------- send_reaction --------------------------- *)
Emojis == {"fire", "heart"}
CustomEmojiIds == {42}

\* types.ReactionType descriptors.
ReactionTypeEmoji(e) == [t |-> "ReactionTypeEmoji", emoji |-> e]
ReactionTypeCustomEmoji(d) == [t |-> "ReactionTypeCustomEmoji", custom_emoji_id |-> d]
Descriptors ==
    {ReactionTypeEmoji(e) : e \in Emojis} \cup
    {ReactionTypeCustomEmoji(d) : d \in CustomEmojiIds}

\* raw.types reactions.
ReactionEmoji(e) == [t |-> "ReactionEmoji", emoticon |-> e]
ReactionCustomEmoji(d) == [t |-> "ReactionCustomEmoji", document_id |-> d]
ReactionEmpty == [t |-> "ReactionEmpty"]

\* ReactionType.write(client): the wire value of a descriptor.
ReactionType_write(d) ==
    IF d.t = "ReactionTypeEmoji" THEN ReactionEmoji(d.emoji)
    ELSE ReactionCustomEmoji(d.custom_emoji_id)

\* The reaction arguments tried: None, a list of descriptors (the default
\* is the empty list), or one descriptor that is not in a list.
ReactionArgs ==
    {PyNone} \cup
    {PyList(s) : s \in SeqsUpTo(Descriptors, MaxReactions)} \cup
    {PyObject(d) : d \in Descriptors}

\* if message_id is not None / elif story_id is not None / else
Branch_story_first(message_id, story_id) ==
    IF story_id # None THEN "story"
    ELSE IF message_id # None THEN "message"
    ELSE "invalid"

Branch_no_else(message_id, story_id) ==
    IF message_id # None THEN "message" ELSE "story"

Branch(message_id, story_id) ==
    IF message_id # None THEN "message"
    ELSE IF story_id # None THEN "story"
    ELSE "invalid"

\* reaction=[r.write(self) for r in reaction] if reaction else [ReactionEmpty()]
MessageReactionField_no_sentinel(reaction) ==
    IF reaction.shape = "list"
    THEN PyList([i \in 1..Len(reaction.items) |-> ReactionType_write(reaction.items[i])])
    ELSE IF reaction.shape = "None" THEN PyList(<<>>)
    ELSE NotIterable

MessageReactionField(reaction) ==
    IF Truthy(reaction)
    THEN IF reaction.shape = "list"
         THEN PyList([i \in 1..Len(reaction.items) |-> ReactionType_write(reaction.items[i])])
         ELSE NotIterable
    ELSE PyList(<<ReactionEmpty>>)

\* reaction=reaction if reaction else [ReactionEmpty()]
StoryReactionField(reaction) ==
    IF Truthy(reaction) THEN reaction ELSE PyList(<<ReactionEmpty>>)

\* raw.functions.messages.SendReaction(peer, msg_id, reaction, big, add_to_recent)
Messages_SendReaction(p, message_id, reaction, is_big, add_to_recent) ==
    [t |-> "messages.SendReaction",
     peer |-> p,
     msg_id |-> message_id,
     reaction |-> MessageReactionField(reaction),
     big |-> is_big,
     add_to_recent |-> add_to_recent]

\* raw.functions.stories.SendReaction(peer, story_id, reaction, add_to_recent)
Stories_SendReaction(p, story_id, reaction, add_to_recent) ==
    [t |-> "stories.SendReaction",
     peer |-> p,
     story_id |-> story_id,
     reaction |-> StoryReactionField(reaction),
     add_to_recent |-> add_to_recent]

\* raw.types.ReactionCount and raw.types.MessageReactions
ReactionCount(r, c, k) ==
    [t |-> "ReactionCount", reaction |-> r, count |-> c, chosen_order |-> k]
RawMessageReactions(results) == [t |-> "MessageReactions", results |-> results]

\* The updates a response to messages.SendReaction may hold.
UpdateMessageReactions(r) == [t |-> "UpdateMessageReactions", reactions |-> r]
UpdateEditMessage == [t |-> "UpdateEditMessage"]
UpdateKinds ==
    {UpdateMessageReactions(RawMessageReactions(<<ReactionCount(ReactionEmoji(e), 1, None)>>)) :
        e \in Emojis} \cup {UpdateEditMessage}
UpdatesResponses ==
    {[t |-> "Updates", updates |-> u] : u \in SeqsUpTo(UpdateKinds, MaxUpdates)}

\* types.MessageReactions._parse(self, i.reactions)
MessageReactions_parse(message_reactions) ==
    [t |-> "MessageReactions", parsed_from |-> message_reactions]

\* for i in r.updates: if isinstance(i, UpdateMessageReactions): return parse(i.reactions)
\* Falling off the end of the loop, and of the function, returns None.
RECURSIVE ScanFrom(_, _)
ScanFrom(updates, i) ==
    IF i > Len(updates) THEN Returned(None)
    ELSE IF updates[i].t = "UpdateMessageReactions"
         THEN Returned(Some(MessageReactions_parse(updates[i].reactions)))
         ELSE ScanFrom(updates, i + 1)

RECURSIVE ScanBack(_, _)
ScanBack(updates, i) ==
    IF i < 1 THEN Returned(None)
    ELSE IF updates[i].t = "UpdateMessageReactions"
         THEN Returned(Some(MessageReactions_parse(updates[i].reactions)))
         ELSE ScanBack(updates, i - 1)

ScanUpdates_keep_last(updates) == ScanBack(updates, Len(updates))

ScanUpdates(updates) == ScanFrom(updates, 1)

(* ------------------------------ Reaction ------------------------------ *)
\* Reaction.__init__ with every keyword at its default.
ReactionDefaults ==
    [t |-> "Reaction", emoji |-> None, custom_emoji_id |-> None, count |-> None,
     chosen_order |-> None, chat_id |-> None, msg_id |-> None, is_big |-> FALSE,
     reaction |-> None]

\* The echoed send-requests given to the parser.
EchoedRequests ==
    {Messages_SendReaction(ResolvePeer(c), Some(m), PyList(<<d>>), FALSE, TRUE) :
        c \in ChatIds, m \in TargetIds, d \in Descriptors}

LeafReactions ==
    {ReactionEmoji(e) : e \in Emojis} \cup {ReactionCustomEmoji(d) : d \in CustomEmojiIds}

\* The raw values given to Reaction._parse.
RawReactions == LeafReactions \cup {ReactionEmpty} \cup EchoedRequests

Reaction_parse_no_custom(reaction, chat_id, msg_id, is_big) ==
    IF reaction.t \in {"ReactionEmoji", "ReactionCustomEmoji"}
    THEN Some([ReactionDefaults EXCEPT
                 !.emoji = Some(IF reaction.t = "ReactionEmoji" THEN reaction.emoticon
                                ELSE "custom")])
    ELSE IF reaction.t = "messages.SendReaction"
    THEN Some([ReactionDefaults EXCEPT !.chat_id = chat_id, !.msg_id = msg_id,
                                       !.is_big = is_big, !.reaction = Some(reaction)])
    ELSE None

Reaction_parse_echo_emoji(reaction, chat_id, msg_id, is_big) ==
    IF reaction.t = "ReactionEmoji"
    THEN Some([ReactionDefaults EXCEPT !.emoji = Some(reaction.emoticon)])
    ELSE IF reaction.t = "ReactionCustomEmoji"
    THEN Some([ReactionDefaults EXCEPT !.custom_emoji_id = Some(reaction.document_id)])
    ELSE IF reaction.t = "messages.SendReaction"
    THEN Some([ReactionDefaults EXCEPT !.chat_id = chat_id, !.msg_id = msg_id,
                                       !.is_big = is_big, !.reaction = Some(reaction),
                                       !.emoji = Some("echo")])
    ELSE None

\* Reaction._parse(client, reaction, chat_id, msg_id, is_big): an
\* isinstance chain; falling off its end returns None.
Reaction_parse(reaction, chat_id, msg_id, is_big) ==
    IF reaction.t = "ReactionEmoji"
    THEN Some([ReactionDefaults EXCEPT !.emoji = Some(reaction.emoticon)])
    ELSE IF reaction.t = "ReactionCustomEmoji"
    THEN Some([ReactionDefaults EXCEPT !.custom_emoji_id = Some(reaction.document_id)])
    ELSE IF reaction.t = "messages.SendReaction"
    THEN Some([ReactionDefaults EXCEPT !.chat_id = chat_id, !.msg_id = msg_id,
                                       !.is_big = is_big, !.reaction = Some(reaction)])
    ELSE None

\* Reaction._parse declares five positional parameters without defaults
\* (client, reaction, chat_id, msg_id, is_big); _parse_count passes two.
Reaction_parse_required == 5
Reaction_parse_count_supplied == 2

\* The reaction-count values given to Reaction._parse_count.
ReactionCounts ==
    {ReactionCount(r, c, k) :
        r \in LeafReactions \cup {ReactionEmpty}, c \in 0..MaxCount,
        k \in {None} \cup {Some(n) : n \in 0..MaxCount}}

\* Reaction._parse_count(client, reaction_count)
Reaction_parse_count(reaction_count) ==
    IF Reaction_parse_count_supplied # Reaction_parse_required
    THEN Raised("TypeError")
    ELSE LET reaction == Reaction_parse(reaction_count.reaction, None, None, FALSE)
         IN  IF reaction = None
             THEN Raised("AttributeError")
             ELSE Returned(Some([(CHOOSE x \in reaction : TRUE) EXCEPT
                                    !.count = Some(reaction_count.count),
                                    !.chosen_order = reaction_count.chosen_order]))

(* ------------------------------- state -------------------------------- *)
NoArgs == [none |-> TRUE]

Init ==
    /\ pc = "idle"
    /\ op = "-"
    /\ args = NoArgs
    /\ peer = None
    /\ resolveCalls = 0
    /\ requests = <<>>
    /\ response = None
    /\ fault = None
    /\ result = Pending

\* The caller has the outcome of the call; the client is ready for the next.
Return ==
    /\ pc = "done"
    /\ pc' = "idle"
    /\ op' = "-"
    /\ args' = NoArgs
    /\ peer' = None
    /\ resolveCalls' = 0
    /\ requests' = <<>>
    /\ response' = None
    /\ fault' = None
    /\ result' = Pending

(* ------------------- the awaits on the external client ---------------- *)
\* resolve_peer raises: no handler, the exception leaves the method.
ResolvePeerRaises ==
    /\ pc = "resolve_peer"
    /\ \E e \in PeerErrors :
         /\ fault' = Some([at |-> "resolve_peer", exc |-> e])
         /\ result' = Raised(e)
    /\ pc' = "done"
    /\ UNCHANGED <<op, args, peer, resolveCalls, requests, response>>

\* invoke raises: no handler, no retry, the exception leaves the method.
InvokeRaises_retry ==
    /\ pc = "invoke"
    /\ \E e \in RpcErrors :
         IF Len(requests) < 2
         THEN /\ requests' = Append(requests, requests[Len(requests)])
              /\ UNCHANGED <<pc, fault, result>>
         ELSE /\ fault' = Some([at |-> "invoke", exc |-> e])
              /\ result' = Raised(e)
              /\ pc' = "done"
              /\ UNCHANGED requests
    /\ UNCHANGED <<op, args, peer, resolveCalls, response>>

InvokeRaises ==
    /\ pc = "invoke"
    /\ \E e \in RpcErrors :
         /\ fault' = Some([at |-> "invoke", exc |-> e])
         /\ result' = Raised(e)
    /\ pc' = "done"
    /\ UNCHANGED <<op, args, peer, resolveCalls, requests, response>>

(* ------------------------ set_chat_permissions ------------------------ *)
\* The call runs to its first await, on resolve_peer(chat_id).
SetChatPermissions_Call ==
    /\ pc = "idle"
    /\ \E chat_id \in ChatIds, permissions \in PermissionSets :
         args' = [chat_id |-> chat_id, permissions |-> permissions]
    /\ op' = "set_chat_permissions"
    /\ resolveCalls' = resolveCalls + 1
    /\ pc' = "resolve_peer"
    /\ UNCHANGED <<peer, requests, response, fault, result>>

\* resolve_peer returns: the request is built and handed to invoke.
SetChatPermissions_Resolved ==
    /\ pc = "resolve_peer"
    /\ op = "set_chat_permissions"
    /\ peer' = Some(ResolvePeer(args.chat_id))
    /\ requests' = Append(requests,
                     EditChatDefaultBannedRights(ResolvePeer(args.chat_id), args.permissions))
    /\ pc' = "invoke"
    /\ UNCHANGED <<op, args, resolveCalls, response, fault, result>>

\* invoke returns r: return types.Chat._parse_chat(self, r.chats[0])
SetChatPermissions_Invoked ==
    /\ pc = "invoke"
    /\ op = "set_chat_permissions"
    /\ \E r \in ChatsResponses :
         /\ response' = Some(r)
         /\ result' = Returned(Some(Chat_parse_chat(r.chats[1])))
    /\ pc' = "done"
    /\ UNCHANGED <<op, args, peer, resolveCalls, requests, fault>>

(* ---------------------------- send_reaction --------------------------- *)
\* The call takes its branch: the message and the story branch run to
\* their await on resolve_peer(chat_id), the else branch raises ValueError.
SendReaction_Call ==
    /\ pc = "idle"
    /\ \E chat_id \in ChatIds,
          message_id \in {None} \cup {Some(m) : m \in TargetIds},
          story_id \in {None} \cup {Some(m) : m \in TargetIds},
          reaction \in ReactionArgs,
          is_big \in BOOLEAN, add_to_recent \in BOOLEAN :
         /\ args' = [chat_id |-> chat_id, message_id |-> message_id,
                     story_id |-> story_id, reaction |-> reaction,
                     is_big |-> is_big, add_to_recent |-> add_to_recent]
         /\ IF Branch(message_id, story_id) = "invalid"
            THEN /\ result' = Raised("ValueError")
                 /\ pc' = "done"
                 /\ UNCHANGED resolveCalls
            ELSE /\ resolveCalls' = resolveCalls + 1
                 /\ pc' = "resolve_peer"
                 /\ UNCHANGED result
    /\ op' = "send_reaction"
    /\ UNCHANGED <<peer, requests, response, fault>>

\* Message branch, resolve_peer returns: the reaction list is built (a
\* reaction that is not a list cannot be iterated: TypeError) and the
\* request is handed to invoke.
SendReaction_Message_Resolved ==
    /\ pc = "resolve_peer"
    /\ op = "send_reaction"
    /\ Branch(args.message_id, args.story_id) = "message"
    /\ peer' = Some(ResolvePeer(args.chat_id))
    /\ IF MessageReactionField(args.reaction) = NotIterable
       THEN /\ result' = Raised("TypeError")
            /\ pc' = "done"
            /\ UNCHANGED requests
       ELSE /\ requests' = Append(requests,
                             Messages_SendReaction(ResolvePeer(args.chat_id), args.message_id,
                                                   args.reaction, args.is_big,
                                                   args.add_to_recent))
            /\ pc' = "invoke"
            /\ UNCHANGED result
    /\ UNCHANGED <<op, args, resolveCalls, response, fault>>

\* Message branch, invoke returns r: the scan of r.updates.
SendReaction_Message_Invoked ==
    /\ pc = "invoke"
    /\ op = "send_reaction"
    /\ Branch(args.message_id, args.story_id) = "message"
    /\ \E r \in UpdatesResponses :
         /\ response' = Some(r)
         /\ result' = ScanUpdates(r.updates)
    /\ pc' = "done"
    /\ UNCHANGED <<op, args, peer, resolveCalls, requests, fault>>

\* Story branch, resolve_peer returns: the request is handed to invoke.
SendReaction_Story_Resolved ==
    /\ pc = "resolve_peer"
    /\ op = "send_reaction"
    /\ Branch(args.message_id, args.story_id) = "story"
    /\ peer' = Some(ResolvePeer(args.chat_id))
    /\ requests' = Append(requests,
                     Stories_SendReaction(ResolvePeer(args.chat_id), args.story_id,
                                          args.reaction, args.add_to_recent))
    /\ pc' = "invoke"
    /\ UNCHANGED <<op, args, resolveCalls, response, fault, result>>

\* Story branch, invoke returns: the response is dropped, return True.
SendReaction_Story_Invoked ==
    /\ pc = "invoke"
    /\ op = "send_reaction"
    /\ Branch(args.message_id, args.story_id) = "story"
    /\ \E r \in UpdatesResponses : response' = Some(r)
    /\ result' = Returned(Some(PyTrue))
    /\ pc' = "done"
    /\ UNCHANGED <<op, args, peer, resolveCalls, requests, fault>>

(* ------------------------------ Reaction ------------------------------ *)
Reaction_parse_Call ==
    /\ pc = "idle"
    /\ \E reaction \in RawReactions, chat_id \in ChatIds, msg_id \in TargetIds,
          is_big \in BOOLEAN :
         /\ args' = [reaction |-> reaction, chat_id |-> Some(chat_id),
                     msg_id |-> Some(msg_id), is_big |-> is_big]
         /\ result' = Returned(Reaction_parse(reaction, Some(chat_id), Some(msg_id), is_big))
    /\ op' = "Reaction._parse"
    /\ pc' = "done"
    /\ UNCHANGED <<peer, resolveCalls, requests, response, fault>>

Reaction_parse_count_Call ==
    /\ pc = "idle"
    /\ \E reaction_count \in ReactionCounts :
         /\ args' = [reaction_count |-> reaction_count]
         /\ result' = Reaction_parse_count(reaction_count)
    /\ op' = "Reaction._parse_count"
    /\ pc' = "done"
    /\ UNCHANGED <<peer, resolveCalls, requests, response, fault>>

Next ==
    \/ SetChatPermissions_Call
    \/ SetChatPermissions_Resolved
    \/ SetChatPermissions_Invoked
    \/ SendReaction_Call
    \/ SendReaction_Message_Resolved
    \/ SendReaction_Message_Invoked
    \/ SendReaction_Story_Resolved
    \/ SendReaction_Story_Invoked
    \/ ResolvePeerRaises
    \/ InvokeRaises
    \/ Reaction_parse_Call
    \/ Reaction_parse_count_Call
    \/ Return

Spec == Init /\ [][Next]_vars

(* ------------------------------ claims -------------------------------- *)
IsSendReaction == op = "send_reaction"
BothUnset == args.message_id = None /\ args.story_id = None
BothSet == args.message_id # None /\ args.story_id # None

\* The banned-rights field of each permission flag, as the contract lists them.
FlagOf ==
    [send_messages |-> "can_send_messages", send_media |-> "can_send_media_messages",
     embed_links |-> "can_add_web_page_previews", send_polls |-> "can_send_polls",
     change_info |-> "can_change_info", invite_users |-> "can_invite_users",
     pin_messages |-> "can_pin_messages", manage_topics |-> "can_manage_topics",
     send_audios |-> "can_send_audios", send_docs |-> "can_send_docs",
     send_games |-> "can_send_games", send_gifs |-> "can_send_gifs",
     send_inline |-> "can_send_inline", send_photos |-> "can_send_photos",
     send_plain |-> "can_send_plain", send_roundvideos |-> "can_send_roundvideos",
     send_stickers |-> "can_send_stickers", send_videos |-> "can_send_videos",
     send_voices |-> "can_send_voices"]

\* C1: every EditChatDefaultBannedRights request sent carries a banned-rights
\* record with exactly the 19 rights fields (and until_date), each equal to
\* the negation of its own permission flag, every permission flag being used.
C1_BannedRightsAreComplement ==
    \A i \in 1..Len(requests) :
        requests[i].t = "messages.EditChatDefaultBannedRights" =>
            LET rights == requests[i].banned_rights
            IN  /\ DOMAIN rights = DOMAIN FlagOf \cup {"until_date"}
                /\ Cardinality(DOMAIN FlagOf) = 19
                /\ {FlagOf[f] : f \in DOMAIN FlagOf} = PermFlags
                /\ \A f \in DOMAIN FlagOf :
                       rights[f] = ~(args.permissions[FlagOf[f]] = Some(TRUE))

\* C1 witness: a request was sent for permissions that grant audios and
\* deny documents, and its rights say so.
C1_Witness ==
    /\ op = "set_chat_permissions"
    /\ Len(requests) = 1
    /\ args.permissions["can_send_audios"] = Some(TRUE)
    /\ args.permissions["can_send_docs"] = Some(FALSE)
    /\ requests[1].banned_rights.send_audios = FALSE
    /\ requests[1].banned_rights.send_docs = TRUE

\* C2: a send_reaction call with message_id and story_id both None has
\* raised ValueError, with no resolve_peer call and no invoke.
C2_BothUnsetRaisesWithoutRemoteCall ==
    (IsSendReaction /\ BothUnset) =>
        /\ pc = "done"
        /\ result = Raised("ValueError")
        /\ resolveCalls = 0
        /\ requests = <<>>
        /\ peer = None

C2_Witness ==
    /\ IsSendReaction
    /\ BothUnset
    /\ result = Raised("ValueError")
    /\ resolveCalls = 0

\* C3 as stated: whenever not exactly one of message_id and story_id is
\* supplied, no request is sent and the call ends in ValueError.
C3_NotExactlyOneRaises ==
    (IsSendReaction /\ (BothUnset \/ BothSet)) =>
        /\ requests = <<>>
        /\ pc = "done" => result = Raised("ValueError")

\* C3 amended: ValueError is raised exactly when both are unset; with both
\* set the message branch is taken: any request sent is the message-reaction
\* update for message_id.
C3_RaisesIffBothUnset ==
    IsSendReaction =>
        /\ (result = Raised("ValueError")) <=> BothUnset
        /\ BothSet =>
              \A i \in 1..Len(requests) :
                  /\ requests[i].t = "messages.SendReaction"
                  /\ requests[i].msg_id = args.message_id

C3_Witness ==
    /\ IsSendReaction
    /\ BothSet
    /\ Len(requests) = 1
    /\ requests[1].t = "messages.SendReaction"

\* C4: no request sent by send_reaction carries an empty reaction list, and
\* a call with the empty descriptor list sends exactly one ReactionEmpty.
C4_RetractSendsOneSentinel ==
    IsSendReaction =>
        \A i \in 1..Len(requests) :
            /\ ~(requests[i].reaction.shape = "list" /\ Len(requests[i].reaction.items) = 0)
            /\ args.reaction = PyList(<<>>) =>
                  requests[i].reaction = PyList(<<ReactionEmpty>>)

C4_Witness ==
    /\ IsSendReaction
    /\ args.reaction = PyList(<<>>)
    /\ Len(requests) = 1
    /\ requests[1].t = "stories.SendReaction"
    /\ requests[1].reaction.items = <<ReactionEmpty>>

\* C5: once invoke has returned in the message branch, the result is the
\* parsed summary of the update list's first UpdateMessageReactions entry,
\* or None (returned, not raised) when the list holds none.
C5_FirstReactionsUpdateWins ==
    (IsSendReaction /\ args.message_id # None /\ response # None) =>
        LET updates == (CHOOSE r \in response : TRUE).updates
            hits == {i \in 1..Len(updates) : updates[i].t = "UpdateMessageReactions"}
        IN  IF hits = {}
            THEN result = Returned(None)
            ELSE LET first == CHOOSE i \in hits : \A j \in hits : i <= j
                 IN  result = Returned(Some(MessageReactions_parse(updates[first].reactions)))

\* C5 witness: another update first, then two different reaction updates.
C5_Witness ==
    /\ IsSendReaction
    /\ args.message_id # None
    /\ \E r \in response :
          /\ Len(r.updates) = 3
          /\ r.updates[1].t = "UpdateEditMessage"
          /\ r.updates[2].t = "UpdateMessageReactions"
          /\ r.updates[3].t = "UpdateMessageReactions"
          /\ r.updates[2] # r.updates[3]
          /\ result = Returned(Some(MessageReactions_parse(r.updates[2].reactions)))

\* C6 as stated: in the story branch, for a list of descriptors, the one
\* request sent is stories.SendReaction for that story with the reaction
\* values the message request carries for the same argument, and the result
\* is True once invoke has returned.
C6_StoryCarriesMessageDescriptors ==
    (IsSendReaction /\ args.message_id = None /\ args.story_id # None
        /\ args.reaction.shape = "list") =>
        /\ Len(requests) <= 1
        /\ \A i \in 1..Len(requests) :
              /\ requests[i].t = "stories.SendReaction"
              /\ requests[i].story_id = args.story_id
              /\ requests[i].reaction = MessageReactionField(args.reaction)
        /\ response # None => result = Returned(Some(PyTrue))

\* C7: Reaction._parse on ReactionEmoji(e) gives emoji = e and no custom id,
\* on ReactionCustomEmoji(d) gives custom_emoji_id = d and no emoji, and on
\* a value of no handled shape returns None without raising.
C7_ParseDispatch ==
    (op = "Reaction._parse" /\ pc = "done") =>
        LET raw == args.reaction
        IN  /\ raw.t = "ReactionEmoji" =>
                 /\ result.kind = "returned"
                 /\ Cardinality(result.value) = 1
                 /\ \A x \in result.value :
                        x.emoji = Some(raw.emoticon) /\ x.custom_emoji_id = None
            /\ raw.t = "ReactionCustomEmoji" =>
                 /\ result.kind = "returned"
                 /\ Cardinality(result.value) = 1
                 /\ \A x \in result.value :
                        x.custom_emoji_id = Some(raw.document_id) /\ x.emoji = None
            /\ raw.t \notin {"ReactionEmoji", "ReactionCustomEmoji", "messages.SendReaction"} =>
                 result = Returned(None)

C7_Witness ==
    /\ op = "Reaction._parse"
    /\ pc = "done"
    /\ args.reaction = ReactionCustomEmoji(42)
    /\ \E x \in result.value : x.custom_emoji_id = Some(42) /\ x.emoji = None

\* C8 as stated: Reaction._parse_count returns the record Reaction._parse
\* gives for the inner reaction, with count and chosen_order attached.
C8_ParseCountAttachesCount ==
    (op = "Reaction._parse_count" /\ pc = "done") =>
        LET rc == args.reaction_count
            inner == Reaction_parse(rc.reaction, None, None, FALSE)
        IN  \A x \in inner :
                result = Returned(Some([x EXCEPT !.count = Some(rc.count),
                                                 !.chosen_order = rc.chosen_order]))

\* C9 as stated: for every accepted shape (plain emoji, custom emoji, echoed
\* send-request) the record returned has exactly one of emoji and
\* custom_emoji_id populated.
C9_ExactlyOnePopulated ==
    (op = "Reaction._parse" /\ pc = "done"
        /\ args.reaction.t \in {"ReactionEmoji", "ReactionCustomEmoji", "messages.SendReaction"}) =>
        /\ result.kind = "returned"
        /\ result.value # None
        /\ \A x \in result.value : (x.emoji # None) # (x.custom_emoji_id # None)

\* C9 amended: for a plain or custom emoji exactly one of emoji and
\* custom_emoji_id is populated; for an echoed send-request neither is: the
\* record holds the request in its reaction field instead.
C9_ExactlyOneForLeafShapes ==
    (op = "Reaction._parse" /\ pc = "done") =>
        /\ args.reaction.t \in {"ReactionEmoji", "ReactionCustomEmoji"} =>
              /\ result.kind = "returned"
              /\ result.value # None
              /\ \A x \in result.value : (x.emoji # None) # (x.custom_emoji_id # None)
        /\ args.reaction.t = "messages.SendReaction" =>
              /\ result.kind = "returned"
              /\ result.value # None
              /\ \A x \in result.value :
                     /\ x.emoji = None
                     /\ x.custom_emoji_id = None
                     /\ x.reaction = Some(args.reaction)

C9_Witness ==
    /\ op = "Reaction._parse"
    /\ pc = "done"
    /\ args.reaction.t = "messages.SendReaction"
    /\ \E x \in result.value : x.emoji = None /\ x.custom_emoji_id = None

\* C10: a call resolves the peer once and before its single invoke; a
\* failure of resolve_peer leaves no request sent; a failure of either ends
\* the call with that very exception, no response and no result.
C10_ResolveThenOneInvokeNoRetry ==
    /\ resolveCalls <= 1
    /\ Len(requests) <= 1
    /\ requests # <<>> =>
          /\ resolveCalls = 1
          /\ peer # None
          /\ requests[1].peer \in peer
    /\ \A f \in fault :
          /\ pc = "done"
          /\ result = Raised(f.exc)
          /\ response = None
          /\ f.at = "resolve_peer" => requests = <<>>
          /\ f.at = "invoke" => Len(requests) = 1

C10_Witness ==
    /\ op \in {"set_chat_permissions", "send_reaction"}
    /\ Len(requests) = 1
    /\ \E f \in fault : f.at = "invoke" /\ result = Raised(f.exc)

====
